---- MODULE Spec2Model ----
(***************************************************************************)
(* The translate command of the documentation builder: handler, requester, *)
(* translator, splitter and backoff, run on the JavaScript event loop.     *)
(*                                                                         *)
(* One action is one turn of the event loop.  An I/O event (a file loaded, *)
(* a directory made, a file written, a backend response or error, a retry  *)
(* timer) is taken only when the microtask queue mq is empty; the          *)
(* resumption of an `await` of the handler or of the translator is a       *)
(* microtask, taken from mq in FIFO order.                                 *)
(***************************************************************************)
EXTENDS Integers, Sequences, FiniteSets, TLC

VARIABLES
    params,     \* the required parameters the configuration gives
    xc,         \* the state of the extract command (see below)
    calls,      \* per language and file: the collaborators translate(file) has called
    files,      \* config.files: the file list, each file with what loadFile/extract give for it
    dryRun,     \* config.dryRun
    phase,      \* position of handler: "init", "loop" (awaiting eachLimit), "end"
    li,         \* index in targets of the language being processed (0 before the loop)
    next,       \* eachLimit: index of the next file to start
    running,    \* eachLimit: number of iteratee calls not yet called back
    pc,         \* per file, position of translate(file) in the current language
    promises,   \* per file, the list returned by split(path, units)
    outcome,    \* per language and file: "none", "ok" or "failed" (logger.error)
    out,        \* per language and file: what was handed to dumpFile
    cache,      \* per language: the Map text -> Defer
    stat,       \* per language: request.stat
    batches,    \* every backoff(request(buffer)) started so far
    mq,         \* microtask queue: resumptions of awaits
    reported,   \* the PROCESSED lines printed so far
    fails       \* number of backend errors so far

vars == <<params, xc, calls, files, dryRun, phase, li, next, running, pc, promises, outcome, out,
          cache, stat, batches, mq, reported, fails>>

-----------------------------------------------------------------------------
(* Program constants *)

REQUESTS_LIMIT == 20
BYTES_LIMIT == 10000
RETRY_LIMIT == 3

(* Bounds of the model *)

\* backend errors that may occur in one run
MaxFails == 3

-----------------------------------------------------------------------------
(* Inputs *)

\* config.targets
Targets == <<"en", "fr">>

\* The texts extract may produce.  "" is the empty string.
Texts == {"a", "b", "c", "big", ""}

\* text.length
length(text) ==
    CASE text = ""    -> 0
      [] text = "big" -> 10000
      [] text = "c"   -> 6000
      [] OTHER        -> 4000

\* A file: kind "txt" has an extension other than .yaml/.json/.md, kind
\* "empty" loads as empty content, kind "doc" loads as content from which
\* extract gives units.
File(kind, units) == [kind |-> kind, units |-> units]

Docs ==
    { <<>>,
      <<"a", "b">>,
      <<"a", "c", "b">>,
      <<"a", "big", "b">>,
      <<"a", "b", "a">>,
      <<"b", "a">>,
      <<"a", "">>,
      <<"c", "c">>,
      <<"">>,
      <<"", "">>,
      <<"big", "big">> }

FileKinds ==
    { File("txt", <<>>), File("empty", <<>>) } \cup { File("doc", d) : d \in Docs }

FileLists ==
    { <<x>> : x \in FileKinds } \cup { <<x, y>> : x \in FileKinds, y \in FileKinds }

N == Len(files)
Langs == 1..Len(Targets)

-----------------------------------------------------------------------------
(* utils *)

RECURSIVE bytes(_)
bytes(texts) ==
    IF texts = <<>> THEN 0 ELSE length(Head(texts)) + bytes(Tail(texts))

RECURSIVE flat(_)
flat(lists) ==
    IF lists = <<>> THEN <<>> ELSE Head(lists) \o flat(Tail(lists))

\* the backend's translation of one text into a target language
Translate(target, text) == target \o ":" \o text

\* client.translate: same length and order as the request
Translations(target, texts) == [i \in 1..Len(texts) |-> Translate(target, texts[i])]

-----------------------------------------------------------------------------
(* Defer and the cache *)

\* n counts the calls of defer.resolve
NoDefer == [st |-> "absent", val |-> <<>>, n |-> 0]
NewDefer == [st |-> "pending", val |-> <<>>, n |-> 0]
EmptyCache == [t \in Texts |-> NoDefer]

\* requester: const resolve = (text, index, texts) => ...
\* key is texts[index]; resolving a settled promise changes nothing.
resolve(c, text, key) ==
    IF c[key].st = "absent" THEN c
    ELSE [c EXCEPT ![key] = [st |-> "resolved",
                             val |-> IF @.st = "pending" THEN <<text>> ELSE @.val,
                             n |-> @.n + 1]]

\* faulty variant: every text is resolved with the first result
RECURSIVE ResolveAll_First(_, _, _, _)
ResolveAll_First(c, results, texts, i) ==
    IF i > Len(results) THEN c
    ELSE ResolveAll_First(resolve(c, results[1], texts[i]), results, texts, i + 1)

\* results.map((text, index) => resolve(text, index, texts))
RECURSIVE ResolveAll(_, _, _, _)
ResolveAll(c, results, texts, i) ==
    IF i > Len(results) THEN c
    ELSE ResolveAll(resolve(c, results[i], texts[i]), results, texts, i + 1)

-----------------------------------------------------------------------------
(* requester and backoff *)

EmptyStat == [bytes |-> 0, chunks |-> 0]

\* request(texts): the accounting done when the batch is formed
request(s, texts) == [bytes |-> s.bytes + bytes(texts), chunks |-> s.chunks + 1]

\* backoff(request(buffer)): retry calls the action at once.  In dry-run the
\* action returns texts.map(resolve) without awaiting anything; otherwise
\* client.translate is called and its response awaited.
NewBatch(lang, file, texts, dry) ==
    [lang |-> lang, file |-> file, texts |-> texts,
     st |-> IF dry THEN "ok" ELSE "calling",
     attempt |-> 1, waits |-> <<>>, errors |-> <<>>, error |-> 0,
     val |-> IF dry THEN texts ELSE <<>>]

\* retry's interval option
interval(count) == (2 ^ count) * 1000

\* faulty variant: times taken as the number of retries
RetryAgain_OneMore(attempt) == attempt <= RETRY_LIMIT

\* retry: after a failed attempt, another one follows iff attempt++ < times
RetryAgain(attempt) == attempt < RETRY_LIMIT

\* retry's callback(err): the promise rejects with the error of the attempt that just failed
Rejection(errors) == errors[Len(errors)]

-----------------------------------------------------------------------------
(* splitter *)

DeferRef(text) == [kind |-> "defer", text |-> text, id |-> 0]
ValueRef(text) == [kind |-> "value", text |-> text, id |-> 0]
BatchRef(id) == [kind |-> "batch", text |-> "", id |-> id]

\* release(): promises.push(backoff(request(buffer))); buffer = []; bufferSize = 0
release(acc, lang, file, dry) ==
    [acc EXCEPT
        !.stat = request(@, acc.buffer),
        !.batches = Append(@, NewBatch(lang, file, acc.buffer, dry)),
        !.promises = Append(@, BatchRef(Len(acc.batches) + 1)),
        !.cache = IF dry THEN ResolveAll(@, acc.buffer, acc.buffer, 1) ELSE @,
        !.buffer = <<>>,
        !.bufferSize = 0]

\* faulty variant: the size of the text to add is left out of the test
Overflows_BufferOnly(bufferSize, text) == bufferSize > BYTES_LIMIT

\* if (bufferSize + text.length > BYTES_LIMIT)
Overflows(bufferSize, text) == bufferSize + length(text) > BYTES_LIMIT

\* else if (text.length >= BYTES_LIMIT)
TooBig(text) == length(text) >= BYTES_LIMIT

\* the body of the loop over texts
SplitStep(acc, text, lang, file, dry) ==
    IF acc.cache[text].st # "absent"
    THEN [acc EXCEPT !.promises = Append(@, DeferRef(text))]
    ELSE IF TooBig(text)
    THEN [acc EXCEPT !.promises = Append(@, ValueRef(text))]
    ELSE LET a == IF Overflows(acc.bufferSize, text)
                  THEN release(acc, lang, file, dry) ELSE acc
         IN [a EXCEPT !.buffer = Append(@, text),
                      !.bufferSize = @ + length(text),
                      !.cache[text] = NewDefer]

\* if (bufferSize) promises.push(backoff(request(buffer)))
FlushNeeded(acc) == acc.bufferSize # 0

RECURSIVE SplitLoop(_, _, _, _, _)
SplitLoop(acc, texts, lang, file, dry) ==
    IF texts = <<>>
    THEN IF FlushNeeded(acc) THEN release(acc, lang, file, dry) ELSE acc
    ELSE SplitLoop(SplitStep(acc, Head(texts), lang, file, dry),
                   Tail(texts), lang, file, dry)

\* split(path, texts) on the cache, stat and batches it shares
split(c, s, bs, texts, lang, file, dry) ==
    SplitLoop([cache |-> c, stat |-> s, batches |-> bs, promises |-> <<>>,
               buffer |-> <<>>, bufferSize |-> 0],
              texts, lang, file, dry)

-----------------------------------------------------------------------------
(* promises *)

PromiseState(p, c, bs) ==
    CASE p.kind = "value" -> "resolved"
      [] p.kind = "defer" -> IF c[p.text].st = "resolved" THEN "resolved" ELSE "pending"
      [] p.kind = "batch" -> IF bs[p.id].st = "ok" THEN "resolved"
                             ELSE IF bs[p.id].st = "rejected" THEN "rejected"
                             ELSE "pending"

PromiseValue(p, c, bs) ==
    CASE p.kind = "value" -> <<p.text>>
      [] p.kind = "defer" -> c[p.text].val
      [] p.kind = "batch" -> bs[p.id].val

\* Promise.all(ps)
AllState(ps, c, bs) ==
    IF \E i \in 1..Len(ps) : PromiseState(ps[i], c, bs) = "rejected" THEN "rejected"
    ELSE IF \A i \in 1..Len(ps) : PromiseState(ps[i], c, bs) = "resolved" THEN "resolved"
    ELSE "pending"

AllValues(ps, c, bs) == [i \in 1..Len(ps) |-> PromiseValue(ps[i], c, bs)]

\* the files, in ascending order from f on, whose await Promise.all(...) has settled
RECURSIVE Woken(_, _, _, _, _)
Woken(f, pcs, pss, c, bs) ==
    IF f > N THEN <<>>
    ELSE (IF pcs[f] = "wait" /\ AllState(pss[f], c, bs) # "pending"
          THEN <<[kind |-> "resume", file |-> f]>> ELSE <<>>)
         \o Woken(f + 1, pcs, pss, c, bs)

Wake(pcs, pss, c, bs) ==
    [f \in 1..N |-> IF pcs[f] = "wait" /\ AllState(pss[f], c, bs) # "pending"
                    THEN "ready" ELSE pcs[f]]

-----------------------------------------------------------------------------
(* eachLimit *)

\* faulty variant: the limit test off by one
CanStart_OneMore(run) == run <= REQUESTS_LIMIT

\* while (running < limit && !done)
CanStart(run) == run < REQUESTS_LIMIT

\* replenish(): the index of the next file to start once the loop stops
RECURSIVE Replenish(_, _)
Replenish(run, nx) ==
    IF CanStart(run) /\ nx <= N THEN Replenish(run + 1, nx + 1) ELSE nx

\* faulty variant: the loop ends once every file is started
LoopFinished_AllStarted(run, nx) == nx > N

\* eachLimit calls back when no element is left and none is running
LoopFinished(run, nx) == run = 0 /\ nx > N

\* translate(file) up to its first await: a file of another extension returns at once
Started(f) == IF files[f].kind = "txt" THEN "returned" ELSE "load"

RECURSIVE Returned(_, _)
Returned(from, to) ==
    IF from >= to THEN <<>>
    ELSE (IF files[from].kind = "txt"
          THEN <<[kind |-> "complete", file |-> from]>> ELSE <<>>)
         \o Returned(from + 1, to)

\* the effect of replenish() on pc, next, running and mq
Refill(pcs, run, nx, q) ==
    LET to == Replenish(run, nx)
        r  == run + (to - nx)
    IN /\ next' = to
       /\ running' = r
       /\ pc' = [f \in 1..N |-> IF f >= nx /\ f < to THEN Started(f) ELSE pcs[f]]
       /\ mq' = q \o Returned(nx, to)
                  \o (IF LoopFinished(r, to) THEN <<[kind |-> "report", file |-> 0]>> ELSE <<>>)

-----------------------------------------------------------------------------
(* State *)

NoOut == [kind |-> "none", parts |-> <<>>]

\* auth, folder, source and targets, each asserted by handler
Required == {"auth", "folder", "source", "targets"}

\* the extract command not run
NoExtract == [phase |-> "off"]

Init ==
    /\ params \in SUBSET Required
    /\ xc = NoExtract
    /\ files \in FileLists
    /\ dryRun \in BOOLEAN
    /\ calls = [l \in Langs |-> [f \in 1..N |-> {}]]
    /\ phase = "init"
    /\ li = 0
    /\ next = 1
    /\ running = 0
    /\ pc = [f \in 1..N |-> "idle"]
    /\ promises = [f \in 1..N |-> <<>>]
    /\ outcome = [l \in Langs |-> [f \in 1..N |-> "none"]]
    /\ out = [l \in Langs |-> [f \in 1..N |-> NoOut]]
    /\ cache = [l \in Langs |-> EmptyCache]
    /\ stat = [l \in Langs |-> EmptyStat]
    /\ batches = <<>>
    /\ mq = <<>>
    /\ reported = <<>>
    /\ fails = 0

\* for (const target of targets): fresh cache and requester, then eachLimit
StartLanguage(l) ==
    /\ li' = l
    /\ phase' = "loop"
    /\ promises' = [f \in 1..N |-> <<>>]
    /\ Refill([f \in 1..N |-> "idle"], 0, 1, <<>>)

\* faulty variant: the assertion on folder is missing
Configured_NoFolder(p) == (Required \ {"folder"}) \subseteq p

\* ok(auth), ok(folder), ok(source), ok(targets.length)
Configured(p) == Required \subseteq p

\* handler, up to the first await eachLimit(...), or up to the assertion that throws
Begin ==
    /\ phase = "init"
    /\ IF Configured(params)
       THEN StartLanguage(1)
       ELSE /\ phase' = "aborted"
            /\ UNCHANGED <<li, next, running, pc, promises, mq>>
    /\ UNCHANGED <<params, xc, calls, files, dryRun, outcome, out, cache, stat, batches, reported, fails>>

\* await loadFile(inputPath) completes
Loaded(f) ==
    /\ mq = <<>>
    /\ pc[f] = "load"
    /\ pc' = [pc EXCEPT ![f] = "mkdir"]
    /\ UNCHANGED <<params, xc, calls, files, dryRun, phase, li, next, running, promises, outcome, out,
                   cache, stat, batches, mq, reported, fails>>

\* faulty variant: the content check is missing
NoContent_Never(file) == FALSE

\* if (!content)
NoContent(file) == file.kind = "empty"

\* if (!units.length)
NoUnits(file) == file.units = <<>>

\* await mkdir(...) completes: the content check, extract and split
MkdirDone(f) ==
    /\ mq = <<>>
    /\ pc[f] = "mkdir"
    /\ IF NoContent(files[f])
       THEN \* await dumpFile(outputPath, content)
            /\ pc' = [pc EXCEPT ![f] = "dump"]
            /\ out' = [out EXCEPT ![li][f] = [kind |-> "copy", parts |-> <<>>]]
            /\ UNCHANGED <<calls, promises, cache, stat, batches, mq>>
       ELSE IF NoUnits(files[f])
       THEN \* extract, then await dumpFile(outputPath, content)
            /\ pc' = [pc EXCEPT ![f] = "dump"]
            /\ out' = [out EXCEPT ![li][f] = [kind |-> "copy", parts |-> <<>>]]
            /\ calls' = [calls EXCEPT ![li][f] = {"extract"}]
            /\ UNCHANGED <<promises, cache, stat, batches, mq>>
       ELSE LET r  == split(cache[li], stat[li], batches, files[f].units, li, f, dryRun)
                ps == [promises EXCEPT ![f] = r.promises]
                p1 == [pc EXCEPT ![f] = "wait"]
            IN /\ cache' = [cache EXCEPT ![li] = r.cache]
               /\ stat' = [stat EXCEPT ![li] = r.stat]
               /\ batches' = r.batches
               /\ promises' = ps
               /\ pc' = Wake(p1, ps, r.cache, r.batches)
               /\ mq' = Woken(1, p1, ps, r.cache, r.batches)
               /\ calls' = [calls EXCEPT ![li][f] =
                              {"extract", "split"}
                              \cup (IF Len(r.batches) > Len(batches) THEN {"request"} ELSE {})]
               /\ UNCHANGED out
    /\ UNCHANGED <<params, xc, files, dryRun, phase, li, next, running, outcome, reported, fails>>

\* await Promise.all(split(path, units)) resumes
Resume ==
    /\ mq # <<>>
    /\ Head(mq).kind = "resume"
    /\ LET f == Head(mq).file IN
       IF AllState(promises[f], cache[li], batches) = "rejected"
       THEN \* catch (error) { logger.error(file, error.message) }
            /\ outcome' = [outcome EXCEPT ![li][f] = "failed"]
            /\ pc' = [pc EXCEPT ![f] = "returned"]
            /\ mq' = Append(Tail(mq), [kind |-> "complete", file |-> f])
            /\ UNCHANGED <<out, calls>>
       ELSE \* flat, compose, dumpFile
            /\ calls' = [calls EXCEPT ![li][f] = @ \cup {"compose"}]
            /\ out' = [out EXCEPT ![li][f] =
                          [kind |-> "composed",
                           parts |-> flat(AllValues(promises[f], cache[li], batches))]]
            /\ pc' = [pc EXCEPT ![f] = "dump"]
            /\ mq' = Tail(mq)
            /\ UNCHANGED outcome
    /\ UNCHANGED <<params, xc, files, dryRun, phase, li, next, running, promises,
                   cache, stat, batches, reported, fails>>

\* await dumpFile(...) completes: translate(file) returns
Dumped(f) ==
    /\ mq = <<>>
    /\ pc[f] = "dump"
    /\ pc' = [pc EXCEPT ![f] = "returned"]
    /\ mq' = <<[kind |-> "complete", file |-> f]>>
    /\ UNCHANGED <<params, xc, calls, files, dryRun, phase, li, next, running, promises, outcome, out,
                   cache, stat, batches, reported, fails>>

\* eachLimit's callback for one file, and replenish()
Complete ==
    /\ mq # <<>>
    /\ Head(mq).kind = "complete"
    /\ LET f == Head(mq).file IN
       /\ outcome' = [outcome EXCEPT ![li][f] = IF @ = "none" THEN "ok" ELSE @]
       /\ Refill([pc EXCEPT ![f] = "done"], running - 1, next, Tail(mq))
    /\ UNCHANGED <<params, xc, calls, files, dryRun, phase, li, promises, out,
                   cache, stat, batches, reported, fails>>

\* await eachLimit(...) resumes: console.log('PROCESSED', ...), next target
Report ==
    /\ mq # <<>>
    /\ Head(mq).kind = "report"
    /\ reported' = Append(reported, [lang |-> li, bytes |-> stat[li].bytes,
                                     chunks |-> stat[li].chunks])
    /\ IF li < Len(Targets)
       THEN StartLanguage(li + 1)
       ELSE /\ phase' = "end"
            /\ mq' = Tail(mq)
            /\ UNCHANGED <<li, next, running, pc, promises>>
    /\ UNCHANGED <<params, xc, calls, files, dryRun, outcome, out, cache, stat, batches, fails>>

\* client.translate(...).then(...): the response of batch b arrives
BackendOk(b) ==
    /\ mq = <<>>
    /\ batches[b].st = "calling"
    /\ LET l  == batches[b].lang
           rs == Translations(Targets[l], batches[b].texts)
           c  == ResolveAll(cache[l], rs, batches[b].texts, 1)
           bs == [batches EXCEPT ![b].st = "ok", ![b].val = rs]
           cs == [cache EXCEPT ![l] = c]
       IN /\ cache' = cs
          /\ batches' = bs
          /\ pc' = Wake(pc, promises, cs[li], bs)
          /\ mq' = Woken(1, pc, promises, cs[li], bs)
    /\ UNCHANGED <<params, xc, calls, files, dryRun, phase, li, next, running, promises, outcome, out,
                   stat, reported, fails>>

\* client.translate(...).catch(...): the call of batch b fails with the
\* (fails + 1)-th error of the run; retry decides
BackendFail(b) ==
    /\ mq = <<>>
    /\ batches[b].st = "calling"
    /\ fails < MaxFails
    /\ fails' = fails + 1
    /\ LET es == Append(batches[b].errors, fails + 1)
           bs == IF RetryAgain(batches[b].attempt)
                 THEN [batches EXCEPT ![b].st = "delay",
                                      ![b].errors = es,
                                      ![b].waits = Append(@, interval(batches[b].attempt))]
                 ELSE [batches EXCEPT ![b].st = "rejected",
                                      ![b].errors = es,
                                      ![b].error = Rejection(es)]
       IN /\ batches' = bs
          /\ pc' = Wake(pc, promises, cache[li], bs)
          /\ mq' = Woken(1, pc, promises, cache[li], bs)
    /\ UNCHANGED <<params, xc, calls, files, dryRun, phase, li, next, running, promises, outcome, out,
                   cache, stat, reported>>

\* faulty variant: the accounting is done by the action, at each call of it
RetryAttempt_Accounts(b) ==
    /\ mq = <<>>
    /\ batches[b].st = "delay"
    /\ batches' = [batches EXCEPT ![b].st = "calling", ![b].attempt = @ + 1]
    /\ stat' = [stat EXCEPT ![batches[b].lang] = request(@, batches[b].texts)]
    /\ UNCHANGED <<params, xc, calls, files, dryRun, phase, li, next, running, pc, promises, outcome, out,
                   cache, mq, reported, fails>>

\* setTimeout(retryAttempt, ...) fires: the action is called again
RetryAttempt(b) ==
    /\ mq = <<>>
    /\ batches[b].st = "delay"
    /\ batches' = [batches EXCEPT ![b].st = "calling", ![b].attempt = @ + 1]
    /\ UNCHANGED <<params, xc, calls, files, dryRun, phase, li, next, running, pc, promises, outcome, out,
                   cache, stat, mq, reported, fails>>

Next ==
    \/ Begin
    \/ \E f \in 1..N : Loaded(f)
    \/ \E f \in 1..N : MkdirDone(f)
    \/ Resume
    \/ \E f \in 1..N : Dumped(f)
    \/ Complete
    \/ Report
    \/ \E b \in 1..Len(batches) : BackendOk(b)
    \/ \E b \in 1..Len(batches) : BackendFail(b)
    \/ \E b \in 1..Len(batches) : RetryAttempt(b)

Spec == Init /\ [][Next]_vars

\* File lists longer than REQUESTS_LIMIT: a first and a last file of any kind,
\* files of another extension between them.
LimitLists ==
    { [i \in 1..(REQUESTS_LIMIT + 2) |->
          IF i = 1 THEN x ELSE IF i = REQUESTS_LIMIT + 2 THEN y ELSE File("txt", <<>>)]
      : x \in FileKinds, y \in FileKinds }

InitLimit ==
    /\ params = Required
    /\ xc = NoExtract
    /\ files \in LimitLists
    /\ dryRun \in BOOLEAN
    /\ calls = [l \in Langs |-> [f \in 1..N |-> {}]]
    /\ phase = "init"
    /\ li = 0
    /\ next = 1
    /\ running = 0
    /\ pc = [f \in 1..N |-> "idle"]
    /\ promises = [f \in 1..N |-> <<>>]
    /\ outcome = [l \in Langs |-> [f \in 1..N |-> "none"]]
    /\ out = [l \in Langs |-> [f \in 1..N |-> NoOut]]
    /\ cache = [l \in Langs |-> EmptyCache]
    /\ stat = [l \in Langs |-> EmptyStat]
    /\ batches = <<>>
    /\ mq = <<>>
    /\ reported = <<>>
    /\ fails = 0

SpecLimit == InitLimit /\ [][Next]_vars

\* A backend that answers every batch in the end: a call may fail only when
\* retry makes another attempt.
BackendFailRetried(b) ==
    /\ RetryAgain(batches[b].attempt)
    /\ BackendFail(b)

NextLive ==
    \/ Begin
    \/ \E f \in 1..N : Loaded(f)
    \/ \E f \in 1..N : MkdirDone(f)
    \/ Resume
    \/ \E f \in 1..N : Dumped(f)
    \/ Complete
    \/ Report
    \/ \E b \in 1..Len(batches) : BackendOk(b)
    \/ \E b \in 1..Len(batches) : BackendFailRetried(b)
    \/ \E b \in 1..Len(batches) : RetryAttempt(b)

\* The event loop takes every pending event and microtask in the end.
SpecLive == Init /\ [][NextLive]_vars /\ WF_vars(NextLive)

-----------------------------------------------------------------------------
(* The extract command *)

MAX_CONCURRENCY == 50

\* What the catch block can tell of a thrown value: the two instanceof tests
\* and the fatal flag.
Errors == [translate : BOOLEAN, skip : BOOLEAN, fatal : BOOLEAN]

NoError == [translate |-> FALSE, skip |-> FALSE, fatal |-> FALSE]

\* The awaits of configuredPipeline(file), in order.
Stages == <<"load", "schemas", "dump">>

\* A file, by what its pipeline does: the await it throws after ("never" for a
\* file that is extracted) and the value thrown.
Extracted == [fail |-> "never", err |-> NoError]

Throws(stage, err) == [fail |-> stage, err |-> err]

ExtractKinds ==
    {Extracted} \cup {Throws(Stages[i], e) : i \in 1..Len(Stages), e \in Errors}

\* a file that cannot be read
Unreadable == Throws("load", NoError)

SomeKinds ==
    { Extracted,
      Throws("schemas", [translate |-> TRUE, skip |-> TRUE, fatal |-> FALSE]),
      Throws("schemas", [translate |-> TRUE, skip |-> FALSE, fatal |-> FALSE]),
      Throws("dump", [translate |-> TRUE, skip |-> FALSE, fatal |-> TRUE]) }

\* config.files: short lists of every kind, and lists longer than MAX_CONCURRENCY
\* with unreadable files between two files of some kinds.
ExtractLists ==
    {<<>>}
    \cup {<<x>> : x \in ExtractKinds}
    \cup {<<x, y>> : x \in ExtractKinds, y \in ExtractKinds}
    \cup { [i \in 1..(MAX_CONCURRENCY + 2) |->
              IF i = 1 THEN x ELSE IF i = MAX_CONCURRENCY + 2 THEN y ELSE Unreadable]
           : x \in SomeKinds, y \in SomeKinds }

LogNames == {"extracted", "skipped", "extractError", "error"}

KindsOf(list) == {list[i] : i \in 1..Len(list)}

\* the state of Extract.action: the configuration it reads (source and targets as
\* the truth of language && locale), the loop over targets, eachLimit's counters,
\* the files in flight counted by kind and by the await they are at, and the
\* logger's calls counted by target, kind and method
NewExtract(source, targets, list) ==
    [phase    |-> "init",
     source   |-> source,
     targets  |-> targets,
     files    |-> list,
     li       |-> 0,
     next     |-> 1,
     running  |-> 0,
     inflight |-> [k \in KindsOf(list), st \in {"load", "schemas", "dump"} |-> 0],
     logs     |-> [l \in 1..Len(targets) |-> [k \in KindsOf(list), m \in LogNames |-> 0]]]

\* replenish: while (running < limit && !done), with an element left
ExtractCanStart(x) == x.running < MAX_CONCURRENCY /\ x.next <= Len(x.files)

\* replenish: each file started runs logger.extract and the pipeline up to
\* await content.load()
RECURSIVE ExtractReplenish(_)
ExtractReplenish(x) ==
    IF ExtractCanStart(x)
    THEN ExtractReplenish([x EXCEPT !.running = @ + 1,
                                    !.next = @ + 1,
                                    !.inflight[x.files[x.next], "load"] = @ + 1])
    ELSE x

\* eachLimit calls back when no element is left and none is running
ExtractLoopFinished(x) == x.running = 0 /\ x.next > Len(x.files)

\* for (const target of targets), from target l on: the two assertions, then
\* eachLimit up to its first wait; the loop goes on when eachLimit has nothing to do
RECURSIVE Enter(_, _)
Enter(x, l) ==
    IF l > Len(x.targets) THEN [x EXCEPT !.phase = "end"]
    ELSE IF ~(x.source /\ x.targets[l]) THEN [x EXCEPT !.phase = "aborted"]
    ELSE LET started == ExtractReplenish([x EXCEPT !.phase = "loop", !.li = l,
                                                   !.next = 1, !.running = 0])
         IN IF ExtractLoopFinished(started) THEN Enter(started, l + 1) ELSE started

\* iterateeCallback: one file fewer runs; the loop ends or is replenished
Finish(x) ==
    LET y == [x EXCEPT !.running = @ - 1]
    IN IF ExtractLoopFinished(y) THEN Enter(y, y.li + 1) ELSE ExtractReplenish(y)

Log(x, k, m) == [x EXCEPT !.logs[x.li][k, m] = @ + 1]

\* the logger method the catch block calls
Caught(err) ==
    IF err.translate
    THEN IF err.skip THEN "skipped" ELSE "extractError"
    ELSE "error"

\* faulty variant: every TranslateError that is not a SkipTranslation exits
Exits_AnyTranslateError(err) == err.translate /\ ~err.skip

\* the catch block reaches process.exit(1)
Exits(err) == err.translate /\ ~err.skip /\ err.fatal

\* catch (error)
Catch(x, k) ==
    LET logged == Log(x, k, Caught(k.err))
    IN IF Exits(k.err) THEN [logged EXCEPT !.phase = "exited"] ELSE Finish(logged)

\* a file of kind k leaves the await at stage i: it throws there, or goes on to
\* the next await, or is extracted
Settle(x, k, i) ==
    LET left == [x EXCEPT !.inflight[k, Stages[i]] = @ - 1]
    IN IF k.fail = Stages[i] THEN Catch(left, k)
       ELSE IF i = Len(Stages) THEN Finish(Log(left, k, "extracted"))
       ELSE [left EXCEPT !.inflight[k, Stages[i + 1]] = @ + 1]

Idle ==
    UNCHANGED <<params, calls, files, dryRun, phase, li, next, running, pc, promises,
                outcome, out, cache, stat, batches, mq, reported, fails>>

\* Extract.action up to its first await
ExtractBegin ==
    /\ xc.phase = "init"
    /\ xc' = Enter(xc, 1)
    /\ Idle

\* the kinds of the files that are at await i
Awaiting(i) == {k \in KindsOf(xc.files) : xc.inflight[k, Stages[i]] > 0}

\* await content.load() is over
ContentLoaded ==
    /\ xc.phase = "loop"
    /\ \E k \in Awaiting(1) : xc' = Settle(xc, k, 1)
    /\ Idle

\* await resolveSchemas(...) is over; extract and the test of the units follow
SchemasResolved ==
    /\ xc.phase = "loop"
    /\ \E k \in Awaiting(2) : xc' = Settle(xc, k, 2)
    /\ Idle

\* await Promise.all([xlf.dump, skl.dump]) is over
XliffDumped ==
    /\ xc.phase = "loop"
    /\ \E k \in Awaiting(3) : xc' = Settle(xc, k, 3)
    /\ Idle

NextExtract ==
    \/ ExtractBegin
    \/ ContentLoaded
    \/ SchemasResolved
    \/ XliffDumped

InitExtract ==
    /\ xc \in {NewExtract(s, t, fl) :
                 s \in BOOLEAN, t \in [1..Len(Targets) -> BOOLEAN], fl \in ExtractLists}
    /\ params = {}
    /\ files = <<>>
    /\ dryRun = FALSE
    /\ calls = [l \in Langs |-> [f \in 1..N |-> {}]]
    /\ phase = "init"
    /\ li = 0
    /\ next = 1
    /\ running = 0
    /\ pc = [f \in 1..N |-> "idle"]
    /\ promises = [f \in 1..N |-> <<>>]
    /\ outcome = [l \in Langs |-> [f \in 1..N |-> "none"]]
    /\ out = [l \in Langs |-> [f \in 1..N |-> NoOut]]
    /\ cache = [l \in Langs |-> EmptyCache]
    /\ stat = [l \in Langs |-> EmptyStat]
    /\ batches = <<>>
    /\ mq = <<>>
    /\ reported = <<>>
    /\ fails = 0

SpecExtract == InitExtract /\ [][NextExtract]_vars

-----------------------------------------------------------------------------
(* What the claims speak of *)

Units(f) == files[f].units

\* the part a unit should yield: itself when oversized or in dry-run, else its translation
Expected(l, text) ==
    IF length(text) >= BYTES_LIMIT \/ dryRun THEN text ELSE Translate(Targets[l], text)

ExpectedParts(l, f) == [i \in 1..Len(Units(f)) |-> Expected(l, Units(f)[i])]

\* the places (batch, index) where text t was handed to the requester in language l
BatchesOf(l) == { b \in 1..Len(batches) : batches[b].lang = l }

Placements(l, t) ==
    UNION { { <<b, i>> : i \in { j \in DOMAIN batches[b].texts : batches[b].texts[j] = t } }
            : b \in BatchesOf(l) }

RECURSIVE SumBytes(_)
SumBytes(bs) ==
    IF bs = {} THEN 0
    ELSE LET b == CHOOSE x \in bs : TRUE
         IN bytes(batches[b].texts) + SumBytes(bs \ {b})

\* files handed to eachLimit's iteratee and not yet called back
InFlight == { f \in 1..N : pc[f] \notin {"idle", "done"} }

\* files none of whose units is the empty string
NoEmptyText(f) == \A i \in 1..Len(Units(f)) : Units(f)[i] # ""

\* nothing is queued and nothing is awaited from outside: no step can follow
Quiescent ==
    /\ phase \in {"loop", "end"}
    /\ mq = <<>>
    /\ \A f \in 1..N : pc[f] \notin {"load", "mkdir", "dump"}
    /\ \A b \in 1..Len(batches) : batches[b].st \notin {"calling", "delay"}

-----------------------------------------------------------------------------
\* C1: the parts handed to compose for a file are, position by position, the
\* translations of its units, whatever mix of new, cached and oversized units
\* it has.  (Stated for the files without an empty text; those are C15's.)
C1_OrderPreserved ==
    \A l \in Langs : \A f \in 1..N :
        (out[l][f].kind = "composed" /\ NoEmptyText(f))
        => out[l][f].parts = ExpectedParts(l, f)

-----------------------------------------------------------------------------
\* C2: in one language run every text below the ceiling that was seen is in
\* exactly one batch handed to the requester (never in a second one, never in
\* none), and RunStat.bytes counts it once.
C2_OneDispatch ==
    \A l \in Langs :
        /\ \A t \in Texts :
              cache[l][t].st # "absent" => Cardinality(Placements(l, t)) = 1
        /\ stat[l].bytes = SumBytes(BatchesOf(l))

-----------------------------------------------------------------------------
-----------------------------------------------------------------------------
\* C4: when the run has come to rest, every file of the language run that
\* owns no rejected batch has completed, also when it holds a text of a
\* rejected batch of another file.  (Stated for the runs without an empty
\* text; those are C15's.)
C4_FailureContained ==
    (Quiescent /\ \A g \in 1..N : NoEmptyText(g)) =>
        \A f \in 1..N :
            (\A b \in BatchesOf(li) : batches[b].file = f => batches[b].st # "rejected")
            => outcome[li][f] = "ok"

-----------------------------------------------------------------------------
\* C5: every batch handed to the requester has at most 10000 bytes in all, and
\* no unit of 10000 bytes or more is in a batch.
C5_BatchBound ==
    \A b \in 1..Len(batches) :
        /\ bytes(batches[b].texts) <= 10000
        /\ \A i \in 1..Len(batches[b].texts) : length(batches[b].texts[i]) < 10000

\* a batch of exactly 10000 bytes followed by a release for overflow, and an
\* oversized unit met by the splitter
C5_Witness ==
    /\ \E b \in 1..Len(batches) :
          /\ bytes(batches[b].texts) = 10000
          /\ b < Len(batches) /\ batches[b + 1].file = batches[b].file
    /\ \E f \in 1..N :
          /\ pc[f] \in {"wait", "ready", "dump"}
          /\ \E i \in 1..Len(Units(f)) : length(Units(f)[i]) >= 10000

-----------------------------------------------------------------------------
\* C6: at most 20 files are in flight at any time.
C6_AtMostTwenty ==
    /\ Cardinality(InFlight) <= 20
    /\ running = Cardinality(InFlight)

\* 20 files in flight while another waits to be started
C6_Witness ==
    /\ Cardinality(InFlight) = 20
    /\ next <= N
    /\ pc[next] = "idle"

-----------------------------------------------------------------------------
\* C7: languages run one at a time in list order: when a batch of language l
\* exists, every file of every earlier language has finished and the stat of
\* every earlier language has been reported, in list order.
C7_LanguagesInOrder ==
    /\ \A b \in 1..Len(batches) :
          \A k \in 1..(batches[b].lang - 1) :
              /\ k <= Len(reported)
              /\ \A f \in 1..N : outcome[k][f] # "none"
    /\ \A k \in 1..Len(reported) : reported[k].lang = k

\* a request of the second language, after a file of the first one failed
C7_Witness ==
    /\ \E b \in 1..Len(batches) : batches[b].lang = 2 /\ batches[b].st = "calling"
    /\ \E f \in 1..N : outcome[1][f] = "failed"

-----------------------------------------------------------------------------
\* C8: in dry-run, a file whose units are all below the ceiling hands to
\* compose exactly its unit list; a file list of one file with two short
\* units that fit one batch is reported with chunks = 1.  (Stated for the
\* files without an empty text; those are C15's.)
C8_DryRunEcho ==
    dryRun =>
        /\ \A l \in Langs : \A f \in 1..N :
              (/\ out[l][f].kind = "composed"
               /\ NoEmptyText(f)
               /\ \A i \in 1..Len(Units(f)) : length(Units(f)[i]) < BYTES_LIMIT)
              => out[l][f].parts = Units(f)
        /\ files = <<File("doc", <<"a", "b">>)>> =>
              \A k \in 1..Len(reported) : reported[k].chunks = 1

-----------------------------------------------------------------------------
\* C9: RunStat counts formed batches: in every state, chunks is the number of
\* batches formed in the language run and bytes the sum of their byte-lengths,
\* whatever state the batches are in; the reported figures are the final ones.
C9_StatPerBatch ==
    /\ \A l \in Langs :
          /\ stat[l].chunks = Cardinality(BatchesOf(l))
          /\ stat[l].bytes = SumBytes(BatchesOf(l))
    /\ \A k \in 1..Len(reported) :
          /\ reported[k].chunks = Cardinality(BatchesOf(k))
          /\ reported[k].bytes = SumBytes(BatchesOf(k))

\* a language of two batches or more reported after one of them succeeded on a retry
C9_Witness ==
    /\ Len(reported) >= 1
    /\ \E b \in BatchesOf(1) : batches[b].st = "ok" /\ batches[b].attempt > 1
    /\ stat[1].chunks >= 2

-----------------------------------------------------------------------------
\* C10: an oversized unit yields the part [text] at its position, gets no cache
\* entry, is in no batch and leaves RunStat as the batches alone make it.
C10_OversizedPassThrough ==
    \A l \in Langs :
        /\ \A t \in Texts : length(t) >= BYTES_LIMIT =>
              /\ cache[l][t].st = "absent"
              /\ Placements(l, t) = {}
        /\ stat[l].chunks = Cardinality(BatchesOf(l))
        /\ stat[l].bytes = SumBytes(BatchesOf(l))
        /\ \A f \in 1..N : out[l][f].kind = "composed" =>
              \A i \in 1..Len(Units(f)) :
                  length(Units(f)[i]) >= BYTES_LIMIT => out[l][f].parts[i] = Units(f)[i]

-----------------------------------------------------------------------------
\* C11: a file of empty content is handed to dumpFile unchanged and extract is
\* never called for it; a file of no units is handed to dumpFile unchanged
\* and neither split, the requester nor compose is called for it.
C11_PassThrough ==
    \A l \in Langs : \A f \in 1..N :
        /\ files[f].kind = "empty" =>
              /\ calls[l][f] = {}
              /\ out[l][f].kind \in {"none", "copy"}
              /\ outcome[l][f] = "ok" => out[l][f].kind = "copy"
        /\ (files[f].kind = "doc" /\ files[f].units = <<>>) =>
              /\ calls[l][f] \subseteq {"extract"}
              /\ out[l][f].kind \in {"none", "copy"}
              /\ outcome[l][f] = "ok" => out[l][f].kind = "copy"

\* a file of empty content and a file of no units, both written
C11_Witness ==
    /\ N = 2
    /\ files[1].kind = "empty" /\ outcome[1][1] = "ok" /\ out[1][1].kind = "copy"
    /\ files[2].kind = "doc" /\ files[2].units = <<>>
    /\ outcome[1][2] = "ok" /\ out[1][2].kind = "copy" /\ calls[1][2] = {"extract"}

-----------------------------------------------------------------------------
\* C12: with a required parameter missing the run aborts: no file is started
\* or loaded, no cache entry, stat or batch comes to exist, nothing is
\* reported.
C12_AbortsFirst ==
    params # Required =>
        /\ phase \in {"init", "aborted"}
        /\ li = 0
        /\ \A f \in 1..N : pc[f] = "idle"
        /\ running = 0
        /\ batches = <<>>
        /\ reported = <<>>
        /\ \A l \in Langs :
              /\ cache[l] = EmptyCache
              /\ stat[l] = EmptyStat
              /\ \A f \in 1..N : calls[l][f] = {} /\ out[l][f] = NoOut

\* a run aborted for its missing folder, with files to process
C12_Witness ==
    /\ phase = "aborted"
    /\ params = Required \ {"folder"}
    /\ N = 2

-----------------------------------------------------------------------------
\* C13: once the run has come to rest, no cache future that a file was handed
\* for a text of a rejected batch is still pending.
C13_RejectionReachesAll ==
    Quiescent =>
        \A f \in 1..N : \A i \in 1..Len(promises[f]) :
            (/\ promises[f][i].kind = "defer"
             /\ \E b \in BatchesOf(li) :
                   /\ batches[b].st = "rejected"
                   /\ \E j \in DOMAIN batches[b].texts :
                         batches[b].texts[j] = promises[f][i].text)
            => PromiseState(promises[f][i], cache[li], batches) # "pending"

-----------------------------------------------------------------------------
\* C14: the list split returns has one future per unit, in the order of the
\* units, the i-th being the future of the i-th unit alone.  (Stated for the
\* files without an empty text; those are C15's.)
C14_OneFuturePerUnit ==
    \A f \in 1..N :
        (pc[f] \in {"wait", "ready"} /\ NoEmptyText(f)) =>
            /\ Len(promises[f]) = Len(Units(f))
            /\ \A i \in 1..Len(promises[f]) :
                  IF promises[f][i].kind = "batch"
                  THEN batches[promises[f][i].id].texts = <<Units(f)[i]>>
                  ELSE promises[f][i].text = Units(f)[i]

-----------------------------------------------------------------------------
\* C15: every text that has a cache entry belongs to a batch handed to the
\* requester and started.
C15_ReservedIsDispatched ==
    \A l \in Langs : \A t \in Texts :
        cache[l][t].st # "absent" =>
            \E b \in BatchesOf(l) : \E j \in DOMAIN batches[b].texts :
                batches[b].texts[j] = t

-----------------------------------------------------------------------------
\* C16: while a language is being processed, no backend call and no retry
\* delay of a batch of an earlier language is outstanding.
C16_NothingLeftOver ==
    \A b \in 1..Len(batches) :
        batches[b].lang < li => batches[b].st \notin {"calling", "delay"}

-----------------------------------------------------------------------------
\* C17: in live mode a batch that succeeded returns the response texts in
\* order and the cache future of its i-th text holds exactly [response[i]],
\* resolved once; the cache futures of a batch whose response has not arrived
\* are unresolved.
C17_ResolvedByPosition ==
    (~ dryRun) =>
        \A b \in 1..Len(batches) :
            LET l == batches[b].lang
                ts == batches[b].texts
            IN IF batches[b].st = "ok"
               THEN /\ batches[b].val = Translations(Targets[l], ts)
                    /\ \A i \in DOMAIN ts :
                          /\ cache[l][ts[i]].st = "resolved"
                          /\ cache[l][ts[i]].val = <<batches[b].val[i]>>
                          /\ cache[l][ts[i]].n = 1
               ELSE \A i \in DOMAIN ts :
                          /\ cache[l][ts[i]].st = "pending"
                          /\ cache[l][ts[i]].n = 0

\* a batch of two texts answered on a retry while another batch still waits
C17_Witness ==
    /\ ~ dryRun
    /\ \E b \in 1..Len(batches) :
          /\ batches[b].st = "ok" /\ Len(batches[b].texts) >= 2 /\ batches[b].attempt > 1
    /\ \E b \in 1..Len(batches) : batches[b].st = "calling" /\ batches[b].lang = 1

-----------------------------------------------------------------------------
\* C19: with a backend that answers every batch in the end, a run that has
\* come to rest has ended: every file of every language has finished without
\* a failure, every language is reported once, in list order, and no cache
\* future is pending.
C19_RunsToEnd ==
    Quiescent =>
        /\ phase = "end"
        /\ Len(reported) = Len(Targets)
        /\ \A k \in 1..Len(reported) : reported[k].lang = k
        /\ \A l \in Langs :
              /\ \A f \in 1..N : outcome[l][f] = "ok"
              /\ \A t \in Texts : cache[l][t].st # "pending"

-----------------------------------------------------------------------------
\* C18: the extract command keeps at most MAX_CONCURRENCY files in flight; the
\* run exits only when a file threw a fatal TranslateError; while a target's
\* loop is on some file is in flight, so an error of one file never leaves the
\* run stuck; and a run that ends has, for every target, logged every file
\* once: "extracted" for a file without error, one of the error methods for a
\* file with one.
CountOf(list, k) == Cardinality({i \in 1..Len(list) : list[i] = k})

C18_ErrorsContained ==
    xc.phase # "off" =>
        /\ xc.running <= MAX_CONCURRENCY
        /\ \A k \in KindsOf(xc.files) :
              xc.inflight[k, "load"] + xc.inflight[k, "schemas"] + xc.inflight[k, "dump"]
                  <= xc.running
        /\ xc.phase = "exited" =>
              \E k \in KindsOf(xc.files) :
                  /\ k.fail # "never" /\ k.err.translate /\ k.err.fatal /\ ~k.err.skip
                  /\ xc.logs[xc.li][k, "extractError"] > 0
        /\ xc.phase = "aborted" =>
              \E l \in 1..Len(xc.targets) : ~(xc.source /\ xc.targets[l])
        /\ xc.phase = "loop" => xc.running > 0
        /\ xc.phase = "end" =>
              \A l \in 1..Len(xc.targets), k \in KindsOf(xc.files) :
                  IF k.fail = "never"
                  THEN /\ xc.logs[l][k, "extracted"] = CountOf(xc.files, k)
                       /\ \A m \in LogNames \ {"extracted"} : xc.logs[l][k, m] = 0
                  ELSE /\ xc.logs[l][k, "extracted"] = 0
                       /\ xc.logs[l][k, "skipped"] + xc.logs[l][k, "extractError"]
                              + xc.logs[l][k, "error"] = CountOf(xc.files, k)

\* the last target's loop is at the limit with a file still to start, after the
\* first target's loop logged a skipped file and a failed one
C18_Witness ==
    /\ xc.phase = "loop"
    /\ xc.li = Len(xc.targets)
    /\ xc.li > 1
    /\ xc.running = MAX_CONCURRENCY
    /\ xc.next <= Len(xc.files)
    /\ \E k \in KindsOf(xc.files) : xc.logs[1][k, "skipped"] > 0
    /\ \E k \in KindsOf(xc.files) : xc.logs[1][k, "error"] > 0

====
